---- MODULE Spec2Model ----
(***************************************************************************)
(* Model of SmtpAuth::Client (src/src/Client.cpp): the client side of the  *)
(* SMTP AUTH service extension.  The state is Client::Impl; there is one    *)
(* action per public method.  Strings are sequences of byte values, so     *)
(* that the line building, the base64 coding and the splitting of the      *)
(* capability string are computed rather than assumed.                      *)
(*                                                                         *)
(* Every action rewrites the variable event, the record of the call just   *)
(* made: the method, its arguments, what it returned, what it passed to    *)
(* the send and completion callbacks and which methods of which mechanism  *)
(* it called.  The variable handoff remembers of the latest GoAhead which   *)
(* mechanism its AUTH line named and whether the completion callback it    *)
(* stored has been invoked.                                                 *)
(***************************************************************************)
EXTENDS Integers, Sequences, FiniteSets, TLC

VARIABLES
    mechs,              \* Impl::mechs: registered name -> [impl, rank]
    supportedMechs,     \* Impl::supportedMechs: sequence of names
    selectedMech,       \* Impl::selectedMech: a mechanism or NoMech
    selectedMechName,   \* Impl::selectedMechName
    unsubscribeDelegate,\* Impl::selectedMechDiagnosticsUnsubscribeDelegate
    subscriptions,      \* per mechanism: live diagnostics subscriptions held by the client
    done,               \* Impl::done
    onSendMessage,      \* Impl::onSendMessage: a callback or NoCallback
    onStageComplete,    \* Impl::onStageComplete: a callback or NoCallback
    handoff,            \* the latest GoAhead: the mechanism its AUTH line named,
                        \* and whether its completion callback was invoked since
    event               \* the call just made and what it did

vars == <<mechs, supportedMechs, selectedMech, selectedMechName,
          unsubscribeDelegate, subscriptions, done, onSendMessage,
          onStageComplete, handoff, event>>

----------------------------------------------------------------------------
(* Bounds of the model. *)

\* Ranks given to Register range over -1 .. MaxRank: a negative rank, zero,
\* and the positive ranks up to MaxRank.
MaxRank == 1

\* A capability string given to Configure holds at most MaxSupported names.
MaxSupported == 2

----------------------------------------------------------------------------
(* Byte strings. *)

\* "FOO"
FOO == <<70, 79, 79>>

\* "BAR"
BAR == <<66, 65, 82>>

\* "AUTH "
AuthPrefix == <<65, 85, 84, 72, 32>>

\* "\r\n"
CRLF == <<13, 10>>

\* ' '
Space == 32

\* "PogChamp"
PogChamp == <<80, 111, 103, 67, 104, 97, 109, 112>>

\* "LetMeIn"
LetMeIn == <<76, 101, 116, 77, 101, 73, 110>>

\* "challenge"
Challenge == <<99, 104, 97, 108, 108, 101, 110, 103, 101>>

\* std::string operator< : lexicographic order on byte strings, the order in
\* which std::map iterates its keys.
RECURSIVE StringLess(_, _)
StringLess(a, b) ==
    IF Len(b) = 0 THEN FALSE
    ELSE IF Len(a) = 0 THEN TRUE
    ELSE IF a[1] # b[1] THEN a[1] < b[1]
    ELSE StringLess(Tail(a), Tail(b))

----------------------------------------------------------------------------
(* Base64::Encode and Base64::Decode (RFC 4648, with padding). *)

Base64Pad == 61

\* The character of a 6-bit value: A-Z, a-z, 0-9, '+', '/'.
Base64Char(v) ==
    IF v < 26 THEN 65 + v
    ELSE IF v < 52 THEN 97 + (v - 26)
    ELSE IF v < 62 THEN 48 + (v - 52)
    ELSE IF v = 62 THEN 43
    ELSE 47

\* The 6-bit value of a character.
Base64Value(c) ==
    IF c >= 65 /\ c <= 90 THEN c - 65
    ELSE IF c >= 97 /\ c <= 122 THEN c - 97 + 26
    ELSE IF c >= 48 /\ c <= 57 THEN c - 48 + 52
    ELSE IF c = 43 THEN 62
    ELSE 63

RECURSIVE Base64Encode(_)
Base64Encode(s) ==
    IF Len(s) = 0 THEN <<>>
    ELSE IF Len(s) = 1 THEN
        <<Base64Char(s[1] \div 4), Base64Char((s[1] % 4) * 16),
          Base64Pad, Base64Pad>>
    ELSE IF Len(s) = 2 THEN
        <<Base64Char(s[1] \div 4),
          Base64Char((s[1] % 4) * 16 + (s[2] \div 16)),
          Base64Char((s[2] % 16) * 4), Base64Pad>>
    ELSE
        <<Base64Char(s[1] \div 4),
          Base64Char((s[1] % 4) * 16 + (s[2] \div 16)),
          Base64Char((s[2] % 16) * 4 + (s[3] \div 64)),
          Base64Char(s[3] % 64)>>
        \o Base64Encode(SubSeq(s, 4, Len(s)))

RECURSIVE Base64Decode(_)
Base64Decode(s) ==
    IF Len(s) < 4 THEN <<>>
    ELSE
        LET a == Base64Value(s[1])
            b == Base64Value(s[2])
            c == Base64Value(s[3])
            d == Base64Value(s[4])
            first == <<a * 4 + (b \div 16)>>
            second == <<(b % 16) * 16 + (c \div 4)>>
            third == <<(c % 4) * 64 + d>>
        IN  IF s[3] = Base64Pad THEN first
            ELSE IF s[4] = Base64Pad THEN first \o second
            ELSE first \o second \o third
                 \o Base64Decode(SubSeq(s, 5, Len(s)))

----------------------------------------------------------------------------
(* StringExtensions::Split(s, d): the pieces of s between occurrences of d; *)
(* an empty remainder ends the split, so a trailing delimiter adds no piece.*)

\* Index of the first d in s, or 0.
RECURSIVE FindFirstOf(_, _, _)
FindFirstOf(s, d, i) ==
    IF i > Len(s) THEN 0
    ELSE IF s[i] = d THEN i
    ELSE FindFirstOf(s, d, i + 1)

RECURSIVE Split(_, _)
Split(s, d) ==
    IF Len(s) = 0 THEN <<>>
    ELSE
        LET delimiter == FindFirstOf(s, d, 1)
        IN  IF delimiter = 0 THEN <<s>>
            ELSE <<SubSeq(s, 1, delimiter - 1)>>
                 \o Split(SubSeq(s, delimiter + 1, Len(s)), d)

----------------------------------------------------------------------------
(* The collaborators: SASL mechanisms and the host SMTP client. *)

\* The mechanism objects handed to Register, both MockSaslMechanism: mech1
\* is the fixture's, built with the initial response "PogChamp"; mech2 is one
\* built with an empty initial response.
Mechanisms == {"mech1", "mech2"}

\* The null std::shared_ptr< Sasl::Client::Mechanism >.
NoMech == "nullptr"

\* The names mechanisms are registered under and servers advertise.
MechNames == {FOO, BAR}

Ranks == (0 - 1) .. MaxRank

\* The registrations made: the fixture's (FOO is mech1, BAR is mech2), each
\* at any rank, and FOO registered again with the other mechanism at rank 0.
Registrations ==
    {<<FOO, rank, "mech1">> : rank \in Ranks}
    \cup {<<BAR, rank, "mech2">> : rank \in Ranks}
    \cup {<<FOO, 0, "mech2">>}

\* MockSaslMechanism::GetInitialResponse: the string the mock was built with.
GetInitialResponse(m) == IF m = "mech1" THEN PogChamp ELSE <<>>

\* MockSaslMechanism::Proceed: "LetMeIn", whatever the message.
Proceed(m, message) == LetMeIn

\* Smtp::Client::ProtocolStage: the stage of the extension and the stage
\* before it.
ProtocolStages == {"Options", "ReadyToSend"}

ReadyToSend == "ReadyToSend"

\* The hosts that may call GoAhead, each with its own pair of callbacks.
Hosts == {"host1"}

SendCallback(h) == <<"SendMessageDirectly", h>>

CompleteCallback(h) == <<"OnExtensionStageComplete", h>>

\* The empty std::function.
NoCallback == <<"empty">>

\* The null UnsubscribeDelegate.
NoDelegate == [mech |-> NoMech, used |-> FALSE]

\* The reply codes the server sends.
Codes == {235, 334, 535}

\* The reply texts the server sends.
Texts == {Base64Encode(Challenge)}

\* The credentials given to SetCredentials: "hunter2", "alex", "".
Credentials == <<<<104, 117, 110, 116, 101, 114, 50>>, <<97, 108, 101, 120>>, <<>>>>

\* Sequences of at most n elements of S.
RECURSIVE SeqsUpTo(_, _)
SeqsUpTo(S, n) ==
    IF n = 0 THEN {<<>>}
    ELSE LET shorter == SeqsUpTo(S, n - 1)
         IN  shorter \cup {Append(q, x) : q \in shorter, x \in S}

\* The names of q joined by single spaces.
RECURSIVE Join(_)
Join(q) ==
    IF Len(q) = 0 THEN <<>>
    ELSE IF Len(q) = 1 THEN q[1]
    ELSE q[1] \o <<Space>> \o Join(Tail(q))

\* The lists of names a server advertises.
NameLists == SeqsUpTo(MechNames, MaxSupported)

\* The capability string of each list: its names joined by single spaces.
JoinedNames == [names \in NameLists |-> Join(names)]

\* The capability strings given to Configure.
Parameters == {JoinedNames[names] : names \in NameLists}

\* Line 192, worked out once for each capability string.
SplitParameters == [parameters \in Parameters |-> Split(parameters, Space)]

\* The strings the client encodes: the mechanisms' initial responses and
\* their responses to a challenge.
Responses == {GetInitialResponse(m) : m \in Mechanisms} \cup {LetMeIn}

\* Lines 225 and 260, worked out once for each string encoded.
Encoded == [response \in Responses |-> Base64Encode(response)]

\* Line 248, worked out once for each text received.
Decoded == [text \in Texts |-> Base64Decode(text)]

----------------------------------------------------------------------------
(* The record of a call. *)

Event(op, stage, code, ret, sent, completed, calls) ==
    [op |-> op, stage |-> stage, code |-> code, args |-> <<>>, ret |-> ret,
     sent |-> sent, completed |-> completed, calls |-> calls]

\* The record e of a call, with the arguments the call was given.
WithArgs(e, args) == [e EXCEPT !.args = args]

\* One call of a mechanism's method.
Call(m, method, args) == [mech |-> m, method |-> method, args |-> args]

\* What a call through the null selectedMech may do, being undefined: fault
\* and end the process ("crash"), or return without having done anything
\* more ("undefined").
UndefinedOutcomes == {"crash", "undefined"}

\* After a call through the null selectedMech the process has ended, or runs
\* on in a state the source does not determine: no call after it is modelled.
Crashed == event.ret \in UndefinedOutcomes

\* Before any GoAhead: no AUTH line was sent, no completion callback invoked.
NoHandoff == [mech |-> NoMech, completed |-> FALSE]

----------------------------------------------------------------------------
Init ==
    /\ mechs = [name \in {} |-> NoMech]
    /\ supportedMechs = <<>>
    /\ selectedMech = NoMech
    /\ selectedMechName = <<>>
    /\ unsubscribeDelegate = NoDelegate
    /\ subscriptions = [m \in Mechanisms |-> 0]
    /\ done = FALSE
    /\ onSendMessage = NoCallback
    /\ onStageComplete = NoCallback
    /\ handoff = NoHandoff
    /\ event = Event("Client", "", 0, "void", <<>>, <<>>, <<>>)

----------------------------------------------------------------------------
(* Impl::SelectBestSupportedMechanism *)

\* Mutant: the test for "nothing selected yet" is dropped, so only a rank above
\* the initial selectedRank of 0 is ever taken.
ReplacesSelection_RankOnly(selected, candidateRank, selectedRank) ==
    candidateRank > selectedRank

\* Mutant: a candidate of equal rank displaces the selection.
ReplacesSelection_OrEqual(selected, candidateRank, selectedRank) ==
    \/ selected = NoMech
    \/ candidateRank >= selectedRank

\* Lines 134-137: whether the registered candidate replaces the selection.
ReplacesSelection(selected, candidateRank, selectedRank) ==
    \/ selected = NoMech
    \/ candidateRank > selectedRank

\* Lines 129-142: the loop over supportedMechs from index i on; sel holds
\* selectedMech, selectedMechName and the local selectedRank.
RECURSIVE SelectFrom(_, _, _, _)
SelectFrom(registry, supported, i, sel) ==
    IF i > Len(supported) THEN sel
    ELSE
        LET supportedMech == supported[i]
        IN  IF supportedMech \notin DOMAIN registry
            THEN SelectFrom(registry, supported, i + 1, sel)
            ELSE
                LET mechsEntry == registry[supportedMech]
                IN  IF ReplacesSelection(sel.mech, mechsEntry.rank, sel.rank)
                    THEN SelectFrom(registry, supported, i + 1,
                                    [mech |-> mechsEntry.impl,
                                     name |-> supportedMech,
                                     rank |-> mechsEntry.rank])
                    ELSE SelectFrom(registry, supported, i + 1, sel)

\* Lines 127-142: selectedRank = 0, selectedMech = nullptr, then the loop;
\* selectedMechName is not cleared.
BestSupportedMechanism(registry, supported, oldName) ==
    SelectFrom(registry, supported, 1,
               [mech |-> NoMech, name |-> oldName, rank |-> 0])

\* Lines 124-126: the calls made through the stored unsubscribe delegate.
UnsubscribeCalls(delegate) ==
    IF delegate # NoDelegate
    THEN <<Call(delegate.mech, "Unsubscribe", <<>>)>>
    ELSE <<>>

\* Mutant: the newly selected mechanism is reset before it is subscribed to.
SubscribeCalls_ResetsFirst(m) ==
    IF m # NoMech
    THEN <<Call(m, "Reset", <<>>), Call(m, "SubscribeToDiagnostics", <<>>)>>
    ELSE <<>>

\* Lines 143-147: the subscription made on the newly selected mechanism.
SubscribeCalls(m) ==
    IF m # NoMech
    THEN <<Call(m, "SubscribeToDiagnostics", <<>>)>>
    ELSE <<>>

\* Mutant: invoking the delegate cancels nothing.
AfterUnsubscribe_NotCancelled(subs, delegate) == subs

\* The mechanisms' subscriber lists after the delegate was invoked: a
\* delegate invoked before cancels nothing.
AfterUnsubscribe(subs, delegate) ==
    IF delegate # NoDelegate /\ ~delegate.used
    THEN [subs EXCEPT ![delegate.mech] = @ - 1]
    ELSE subs

AfterSubscribe(subs, m) ==
    IF m # NoMech THEN [subs EXCEPT ![m] = @ + 1] ELSE subs

\* The mechanism methods SelectBestSupportedMechanism invokes, in order.
SelectionCalls ==
    UnsubscribeCalls(unsubscribeDelegate)
    \o SubscribeCalls(BestSupportedMechanism(mechs, supportedMechs,
                                             selectedMechName).mech)

\* The whole of SelectBestSupportedMechanism.
SelectBestSupportedMechanism ==
    LET best == BestSupportedMechanism(mechs, supportedMechs, selectedMechName)
    IN  /\ selectedMech' = best.mech
        /\ selectedMechName' = best.name
        /\ unsubscribeDelegate' =
              IF best.mech # NoMech
              THEN [mech |-> best.mech, used |-> FALSE]
              ELSE IF unsubscribeDelegate # NoDelegate
                   THEN [unsubscribeDelegate EXCEPT !.used = TRUE]
                   ELSE unsubscribeDelegate
        /\ subscriptions' =
              AfterSubscribe(AfterUnsubscribe(subscriptions, unsubscribeDelegate),
                             best.mech)

----------------------------------------------------------------------------
(* The public methods of Client. *)

\* Mutant: a name registered before keeps its rank; only the implementation
\* is replaced.
Register_KeepsRank(mechName, rank, mechImpl) ==
    /\ ~Crashed
    /\ mechs' = [name \in DOMAIN mechs \cup {mechName} |->
                    IF name # mechName THEN mechs[name]
                    ELSE IF name \in DOMAIN mechs
                         THEN [impl |-> mechImpl, rank |-> mechs[name].rank]
                         ELSE [impl |-> mechImpl, rank |-> rank]]
    /\ event' = WithArgs(Event("Register", "", 0, "void", <<>>, <<>>, <<>>),
                         <<mechName, rank, mechImpl>>)
    /\ UNCHANGED <<supportedMechs, selectedMech, selectedMechName,
                   unsubscribeDelegate, subscriptions, done, onSendMessage,
                   onStageComplete, handoff>>

\* Client::Register
Register(mechName, rank, mechImpl) ==
    /\ ~Crashed
    /\ mechs' = [name \in DOMAIN mechs \cup {mechName} |->
                    IF name = mechName
                    THEN [impl |-> mechImpl, rank |-> rank]
                    ELSE mechs[name]]
    /\ event' = WithArgs(Event("Register", "", 0, "void", <<>>, <<>>, <<>>),
                         <<mechName, rank, mechImpl>>)
    /\ UNCHANGED <<supportedMechs, selectedMech, selectedMechName,
                   unsubscribeDelegate, subscriptions, done, onSendMessage,
                   onStageComplete, handoff>>

\* The keys of a std::map in iteration order.
RECURSIVE InOrder(_)
InOrder(names) ==
    IF names = {} THEN <<>>
    ELSE LET first == CHOOSE a \in names :
                          \A b \in names \ {a} : StringLess(a, b)
         IN  <<first>> \o InOrder(names \ {first})

\* Mutant: only the mechanisms registered under a supported name are called.
CallEveryMechanism_SupportedOnly(registry, method, args) ==
    LET keys == InOrder({name \in DOMAIN registry :
                            \E i \in DOMAIN supportedMechs :
                                supportedMechs[i] = name})
    IN  [i \in 1 .. Len(keys) |-> Call(registry[keys[i]].impl, method, args)]

\* One call of method on the mechanism of every registration, in map order.
CallEveryMechanism(registry, method, args) ==
    LET keys == InOrder(DOMAIN registry)
    IN  [i \in 1 .. Len(keys) |-> Call(registry[keys[i]].impl, method, args)]

\* Client::SetCredentials
SetCredentials(credentials, authenticationIdentity, authorizationIdentity) ==
    /\ ~Crashed
    /\ event' = WithArgs(Event("SetCredentials", "", 0, "void", <<>>, <<>>,
                               CallEveryMechanism(mechs, "SetCredentials",
                                   <<credentials, authenticationIdentity,
                                     authorizationIdentity>>)),
                         <<credentials, authenticationIdentity,
                           authorizationIdentity>>)
    /\ UNCHANGED <<mechs, supportedMechs, selectedMech, selectedMechName,
                   unsubscribeDelegate, subscriptions, done, onSendMessage,
                   onStageComplete, handoff>>

\* Mutant: an empty capability string leaves the previous list in place.
Configure_KeepsOnEmpty(parameters) ==
    /\ ~Crashed
    /\ supportedMechs' = IF Len(parameters) = 0 THEN supportedMechs
                         ELSE SplitParameters[parameters]
    /\ event' = WithArgs(Event("Configure", "", 0, "void", <<>>, <<>>, <<>>),
                         <<parameters>>)
    /\ UNCHANGED <<mechs, selectedMech, selectedMechName,
                   unsubscribeDelegate, subscriptions, done, onSendMessage,
                   onStageComplete, handoff>>

\* Client::Configure
Configure(parameters) ==
    /\ ~Crashed
    /\ supportedMechs' = SplitParameters[parameters]
    /\ event' = WithArgs(Event("Configure", "", 0, "void", <<>>, <<>>, <<>>),
                         <<parameters>>)
    /\ UNCHANGED <<mechs, selectedMech, selectedMechName,
                   unsubscribeDelegate, subscriptions, done, onSendMessage,
                   onStageComplete, handoff>>

\* Mutant: only the selected mechanism is reset.
Reset_SelectedOnly ==
    /\ ~Crashed
    /\ done' = FALSE
    /\ event' = Event("Reset", "", 0, "void", <<>>, <<>>,
                      IF selectedMech = NoMech THEN <<>>
                      ELSE <<Call(selectedMech, "Reset", <<>>)>>)
    /\ UNCHANGED <<mechs, supportedMechs, selectedMech, selectedMechName,
                   unsubscribeDelegate, subscriptions, onSendMessage,
                   onStageComplete, handoff>>

\* Mutant: the callbacks of the last hand-off are dropped as well.
Reset_DropsCallbacks ==
    /\ ~Crashed
    /\ done' = FALSE
    /\ onSendMessage' = NoCallback
    /\ onStageComplete' = NoCallback
    /\ event' = Event("Reset", "", 0, "void", <<>>, <<>>,
                      CallEveryMechanism(mechs, "Reset", <<>>))
    /\ UNCHANGED <<mechs, supportedMechs, selectedMech, selectedMechName,
                   unsubscribeDelegate, subscriptions, handoff>>

\* Client::Reset
Reset ==
    /\ ~Crashed
    /\ done' = FALSE
    /\ event' = Event("Reset", "", 0, "void", <<>>, <<>>,
                      CallEveryMechanism(mechs, "Reset", <<>>))
    /\ UNCHANGED <<mechs, supportedMechs, selectedMech, selectedMechName,
                   unsubscribeDelegate, subscriptions, onSendMessage,
                   onStageComplete, handoff>>

\* Mutant: the stage is not looked at.
NotNeededHere_AnyStage(isDone, protocolStage) == isDone

\* Mutant: done is not looked at.
NotNeededHere_IgnoreDone(isDone, protocolStage) ==
    protocolStage # ReadyToSend

\* Lines 205-208: the early return of IsExtraProtocolStageNeededHere.
NotNeededHere(isDone, protocolStage) ==
    isDone \/ protocolStage # ReadyToSend

\* Mutant: the stage is claimed whatever the selection found.
StageNeeded_Always(selected) == TRUE

\* Line 212: the value returned after the selection.
StageNeeded(selected) == selected # NoMech

\* Client::IsExtraProtocolStageNeededHere
IsExtraProtocolStageNeededHere(protocolStage) ==
    /\ ~Crashed
    /\ IF NotNeededHere(done, protocolStage)
       THEN /\ event' = Event("IsExtraProtocolStageNeededHere", protocolStage, 0,
                              "false", <<>>, <<>>, <<>>)
            /\ UNCHANGED <<mechs, supportedMechs, selectedMech, selectedMechName,
                           unsubscribeDelegate, subscriptions, done,
                           onSendMessage, onStageComplete, handoff>>
       ELSE /\ SelectBestSupportedMechanism
            /\ event' = Event("IsExtraProtocolStageNeededHere", protocolStage, 0,
                              IF StageNeeded(selectedMech') THEN "true" ELSE "false",
                              <<>>, <<>>, SelectionCalls)
            /\ UNCHANGED <<mechs, supportedMechs, done, onSendMessage,
                           onStageComplete, handoff>>

\* Mutant: the separator and the encoded response are appended even when the
\* initial response is empty.
AuthCommand_AlwaysResponse(mechName, initialResponse) ==
    AuthPrefix \o mechName \o <<Space>> \o Encoded[initialResponse]
    \o CRLF

\* Lines 222-227: the command line GoAhead builds.
AuthCommand(mechName, initialResponse) ==
    AuthPrefix \o mechName
    \o (IF Len(initialResponse) # 0
        THEN <<Space>> \o Encoded[initialResponse]
        ELSE <<>>)
    \o CRLF

\* Client::GoAhead.  Without a selected mechanism the call dereferences a null
\* pointer after storing the callbacks.
GoAhead(host) ==
    /\ ~Crashed
    /\ onSendMessage' = SendCallback(host)
    /\ onStageComplete' = CompleteCallback(host)
    /\ IF selectedMech = NoMech
       THEN /\ \E outcome \in UndefinedOutcomes :
                   event' = Event("GoAhead", "", 0, outcome, <<>>, <<>>, <<>>)
            /\ handoff' = [handoff EXCEPT !.completed = FALSE]
       ELSE LET initialResponse == GetInitialResponse(selectedMech)
            IN  /\ handoff' = [mech |-> selectedMech, completed |-> FALSE]
                /\ event' = Event("GoAhead", "", 0, "void",
                                  <<[fn |-> SendCallback(host),
                                     data |-> AuthCommand(selectedMechName,
                                                          initialResponse)]>>,
                                  <<>>,
                                  <<Call(selectedMech, "GetInitialResponse",
                                         <<>>)>>)
    /\ UNCHANGED <<mechs, supportedMechs, selectedMech, selectedMechName,
                   unsubscribeDelegate, subscriptions, done>>

\* Mutant: the completion is reported but done is not set.
OnDone_DoneNotSet(code, success) ==
    /\ done' = done
    /\ handoff' = [handoff EXCEPT
                      !.completed = @ \/ onStageComplete # NoCallback]
    /\ event' = IF onStageComplete = NoCallback
                THEN Event("HandleServerMessage", "", code, "throw",
                           <<>>, <<>>, <<>>)
                ELSE Event("HandleServerMessage", "", code, "true", <<>>,
                           <<[fn |-> onStageComplete, success |-> success]>>,
                           <<>>)

\* Impl::OnDone: done is set before the callback is invoked; invoking an
\* empty std::function throws std::bad_function_call.
OnDone(code, success) ==
    /\ done' = TRUE
    /\ handoff' = [handoff EXCEPT
                      !.completed = @ \/ onStageComplete # NoCallback]
    /\ event' = IF onStageComplete = NoCallback
                THEN Event("HandleServerMessage", "", code, "throw",
                           <<>>, <<>>, <<>>)
                ELSE Event("HandleServerMessage", "", code, "true", <<>>,
                           <<[fn |-> onStageComplete, success |-> success]>>,
                           <<>>)

\* Lines 235, 247, 265: the case of the switch that message.code takes.
CaseOf(code) ==
    IF code = 235 THEN "success"
    ELSE IF code = 334 THEN "continue"
    ELSE "default"

\* Mutant: the exchange is reported as failed.
HandleSuccess_ReportsFailure(code) == OnDone(code, FALSE)

\* Lines 236-245: case 235, successfully authenticated.
HandleSuccess(code) == OnDone(code, TRUE)

\* Mutant: the text is handed over as received, not decoded.
ChallengeOf_Undecoded(text) == text

\* Lines 256-258: the message handed to the mechanism's Proceed.
ChallengeOf(text) == Decoded[text]

\* Lines 247-263: case 334, continue request.  Without a selected mechanism
\* the call dereferences a null pointer; with no stored send callback it
\* throws after the mechanism has proceeded.
HandleContinue(code, text) ==
    /\ done' = done
    /\ handoff' = handoff
    /\ LET decodedText == ChallengeOf(text)
       IN  IF selectedMech = NoMech
           THEN \E outcome \in UndefinedOutcomes :
                    event' = Event("HandleServerMessage", "", code, outcome,
                                   <<>>, <<>>, <<>>)
           ELSE LET response == Proceed(selectedMech, decodedText)
                    message == Encoded[response] \o CRLF
                    calls == <<Call(selectedMech, "Proceed", <<decodedText>>)>>
                IN  IF onSendMessage = NoCallback
                    THEN event' = Event("HandleServerMessage", "", code,
                                        "throw", <<>>, <<>>, calls)
                    ELSE event' = Event("HandleServerMessage", "", code,
                                        "true",
                                        <<[fn |-> onSendMessage,
                                           data |-> message]>>,
                                        <<>>, calls)

\* Mutant: the older revision's default case, which reported a failed
\* exchange through the completion callback.
HandleDefault_OldRevision(code) ==
    /\ done' = TRUE
    /\ handoff' = [handoff EXCEPT
                      !.completed = @ \/ onStageComplete # NoCallback]
    /\ event' = IF onStageComplete = NoCallback
                THEN Event("HandleServerMessage", "", code, "throw",
                           <<>>, <<>>, <<>>)
                ELSE Event("HandleServerMessage", "", code, "true", <<>>,
                           <<[fn |-> onStageComplete, success |-> FALSE]>>,
                           <<>>)

\* Mutant: an unrecognized code marks the exchange complete.
HandleDefault_MarksDone(code) ==
    /\ done' = TRUE
    /\ handoff' = handoff
    /\ event' = Event("HandleServerMessage", "", code, "false",
                      <<>>, <<>>, <<>>)

\* Lines 265-273: any other code.
HandleDefault(code) ==
    /\ done' = done
    /\ handoff' = handoff
    /\ event' = Event("HandleServerMessage", "", code, "false",
                      <<>>, <<>>, <<>>)

\* Client::HandleServerMessage
HandleServerMessage(code, text) ==
    /\ ~Crashed
    /\ CASE CaseOf(code) = "success" -> HandleSuccess(code)
         [] CaseOf(code) = "continue" -> HandleContinue(code, text)
         [] OTHER -> HandleDefault(code)
    /\ UNCHANGED <<mechs, supportedMechs, selectedMech, selectedMechName,
                   unsubscribeDelegate, subscriptions, onSendMessage,
                   onStageComplete>>

----------------------------------------------------------------------------
Next ==
    \/ \E registration \in Registrations :
           Register(registration[1], registration[2], registration[3])
    \/ SetCredentials(Credentials[1], Credentials[2], Credentials[3])
    \/ \E parameters \in Parameters : Configure(parameters)
    \/ Reset
    \/ \E protocolStage \in ProtocolStages :
           IsExtraProtocolStageNeededHere(protocolStage)
    \/ \E host \in Hosts : GoAhead(host)
    \/ \E code \in Codes, text \in Texts : HandleServerMessage(code, text)

Spec == Init /\ [][Next]_vars

----------------------------------------------------------------------------
(* Properties of the selection and of the applicability check. *)

\* The event is a call of IsExtraProtocolStageNeededHere at ReadyToSend.
\* The call changes neither mechs, supportedMechs nor done, so the state it
\* leaves shows the registrations, the supported list and the done flag it
\* was made with.
AskedAtReadyToSend ==
    /\ event.op = "IsExtraProtocolStageNeededHere"
    /\ event.stage = ReadyToSend

\* The registered names that occur in the supported list.
Candidates ==
    {name \in DOMAIN mechs :
        \E i \in DOMAIN supportedMechs : supportedMechs[i] = name}

\* The positions of the supported list that hold a registered name of the
\* highest rank among the candidates.
TopPositions ==
    {i \in DOMAIN supportedMechs :
        /\ supportedMechs[i] \in Candidates
        /\ \A name \in Candidates :
              mechs[name].rank <= mechs[supportedMechs[i]].rank}

\* C1: with done = false, IsExtraProtocolStageNeededHere at ReadyToSend returns
\* true iff some registered name is in the supported list, and then leaves
\* selected the implementation and the name of a registration that is in the
\* supported list and whose rank is the highest among those (whatever the
\* sign of the ranks, and whatever was selected before).
C1_SelectsHighestRank ==
    (AskedAtReadyToSend /\ ~done) =>
        /\ event.ret = (IF Candidates # {} THEN "true" ELSE "false")
        /\ Candidates # {} =>
              /\ selectedMechName \in Candidates
              /\ selectedMech = mechs[selectedMechName].impl
              /\ \A name \in Candidates :
                    mechs[name].rank <= mechs[selectedMechName].rank

\* A selection between two candidates none of which has a positive rank, made
\* after an earlier selection of the other mechanism.
C1_Witness ==
    /\ AskedAtReadyToSend /\ ~done
    /\ Cardinality(Candidates) = 2
    /\ \A name \in Candidates : mechs[name].rank <= 0
    /\ mechs[FOO].rank # mechs[BAR].rank
    /\ event.ret = "true"
    /\ Len(event.calls) = 2
    /\ event.calls[1].mech # event.calls[2].mech

\* C2: when several registered names of the supported list share the highest
\* rank, the selection is the one at the earliest position of the list.
C2_TieBreakEarliest ==
    (AskedAtReadyToSend /\ ~done /\ Candidates # {}) =>
        \E first \in TopPositions :
            /\ \A i \in TopPositions : first <= i
            /\ selectedMechName = supportedMechs[first]
            /\ selectedMech = mechs[supportedMechs[first]].impl

\* Two names of equal rank, the second of the list being the one a
\* later-wins rule would take.
C2_Witness ==
    /\ AskedAtReadyToSend /\ ~done
    /\ Cardinality(Candidates) = 2
    /\ mechs[FOO].rank = mechs[BAR].rank
    /\ mechs[FOO].impl # mechs[BAR].impl
    /\ Len(supportedMechs) = 2
    /\ selectedMechName = supportedMechs[1]
    /\ event.ret = "true"

\* What C3 asks of one step.
C3_OtherStageStep ==
    (/\ event'.op = "IsExtraProtocolStageNeededHere"
     /\ event'.stage # ReadyToSend) =>
        /\ event'.ret = "false"
        /\ event'.calls = <<>>
        /\ UNCHANGED <<selectedMech, selectedMechName, unsubscribeDelegate,
                       subscriptions>>

\* C3: at a stage other than ReadyToSend, IsExtraProtocolStageNeededHere
\* returns false whatever is registered, supported or done, calls no
\* mechanism and changes neither the selection nor the subscription.
C3_OtherStage == [][C3_OtherStageStep]_vars

\* Asked at another stage while not done, with a registered mechanism
\* supported and an earlier selection that a new selection would replace.
C3_Witness ==
    /\ event.op = "IsExtraProtocolStageNeededHere"
    /\ event.stage # ReadyToSend
    /\ ~done
    /\ Candidates # {}
    /\ selectedMech # NoMech
    /\ selectedMechName \notin Candidates
    /\ event.ret = "false"

\* C4, as claimed: when no registered name is in the supported list,
\* IsExtraProtocolStageNeededHere at ReadyToSend returns false and no
\* mechanism is selected.
C4_NoneSelected_Claimed ==
    (AskedAtReadyToSend /\ Candidates = {}) =>
        /\ event.ret = "false"
        /\ selectedMech = NoMech

\* C4, amended: when no registered name is in the supported list,
\* IsExtraProtocolStageNeededHere at ReadyToSend returns false (it neither
\* throws nor faults), and if done is false no mechanism is selected.
C4_NoneSelected ==
    (AskedAtReadyToSend /\ Candidates = {}) =>
        /\ event.ret = "false"
        /\ ~done => selectedMech = NoMech

\* A selection that finds nothing after one that found a mechanism: names are
\* registered and names are supported, but none is both.
C4_Witness ==
    /\ AskedAtReadyToSend /\ ~done
    /\ Candidates = {}
    /\ DOMAIN mechs # {}
    /\ Len(supportedMechs) > 0
    /\ Len(event.calls) = 1
    /\ event.calls[1].method = "Unsubscribe"
    /\ event.ret = "false"

\* C5: while done is true, every call of IsExtraProtocolStageNeededHere
\* returns false, at every stage and whatever is registered or supported.
C5_NotNeededOnceDone ==
    (event.op = "IsExtraProtocolStageNeededHere" /\ done) =>
        event.ret = "false"

\* Asked at ReadyToSend when done, with a registered mechanism supported.
C5_Witness ==
    /\ AskedAtReadyToSend
    /\ done
    /\ Candidates # {}
    /\ event.ret = "false"

----------------------------------------------------------------------------
(* Properties of the hand-off and of the handling of server messages. *)

\* What C6 asks of one step.
C6_GoAheadStep ==
    (event'.op = "GoAhead" /\ selectedMech # NoMech) =>
        \E host \in Hosts :
            LET initialResponse == GetInitialResponse(selectedMech)
                line ==
                    IF initialResponse = <<>>
                    THEN AuthPrefix \o selectedMechName \o CRLF
                    ELSE AuthPrefix \o selectedMechName \o <<Space>>
                         \o Base64Encode(initialResponse) \o CRLF
            IN  /\ onSendMessage' = SendCallback(host)
                /\ onStageComplete' = CompleteCallback(host)
                /\ event'.sent = <<[fn |-> SendCallback(host), data |-> line]>>
                /\ event'.completed = <<>>
                /\ event'.ret = "void"
                /\ done' = done

\* C6: GoAhead, called while a mechanism is selected, stores the two callbacks
\* it is given and calls the send callback once, with "AUTH ", the selected
\* name, a space and the base64 of the initial response if that is not
\* empty, and CRLF; it does not call the completion callback and leaves done
\* as it was.
C6_GoAhead == [][C6_GoAheadStep]_vars

\* GoAhead with the mechanism that has no initial response selected under the
\* name BAR: the line sent is "AUTH BAR\r\n".
C6_Witness ==
    /\ event.op = "GoAhead"
    /\ selectedMech = "mech2"
    /\ event.sent = <<[fn |-> onSendMessage,
                       data |-> <<65, 85, 84, 72, 32, 66, 65, 82, 13, 10>>]>>

\* C7: HandleServerMessage with code 235, a completion callback being stored,
\* sets done, calls the stored completion callback once with success = true,
\* sends nothing and returns true.
C7_Code235 ==
    (/\ event.op = "HandleServerMessage"
     /\ event.code = 235
     /\ onStageComplete # NoCallback) =>
        /\ done
        /\ event.completed = <<[fn |-> onStageComplete, success |-> TRUE]>>
        /\ event.sent = <<>>
        /\ event.calls = <<>>
        /\ event.ret = "true"

\* Code 235 handled after a hand-off.
C7_Witness ==
    /\ event.op = "HandleServerMessage"
    /\ event.code = 235
    /\ onStageComplete # NoCallback
    /\ selectedMech # NoMech
    /\ Len(event.completed) = 1
    /\ done

\* What C8 asks of one step.
C8_Code334Step ==
    (/\ event'.op = "HandleServerMessage"
     /\ event'.code = 334
     /\ selectedMech # NoMech
     /\ onSendMessage # NoCallback) =>
        /\ event'.calls = <<Call(selectedMech, "Proceed", <<Challenge>>)>>
        /\ event'.sent =
              <<[fn |-> onSendMessage,
                 data |-> Base64Encode(Proceed(selectedMech, Challenge))
                          \o CRLF]>>
        /\ event'.completed = <<>>
        /\ event'.ret = "true"
        /\ done' = done

\* C8: HandleServerMessage with code 334, a mechanism being selected and a send
\* callback stored, calls Proceed on the selected mechanism with the decoded
\* text, sends the one line base64(response) CRLF through the stored send
\* callback, does not call the completion callback, leaves done as it was
\* and returns true.  The text received is the base64 of "challenge".
C8_Code334 == [][C8_Code334Step]_vars

\* Code 334 handled in an exchange that is not done: the mechanism answers
\* "LetMeIn" and the line sent is "TGV0TWVJbg==\r\n".
C8_Witness ==
    /\ event.op = "HandleServerMessage"
    /\ event.code = 334
    /\ ~done
    /\ selectedMech # NoMech
    /\ event.calls = <<Call(selectedMech, "Proceed", <<Challenge>>)>>
    /\ Len(event.sent) = 1
    /\ event.sent[1].data =
          <<84, 71, 86, 48, 84, 87, 86, 74, 98, 103, 61, 61, 13, 10>>

\* What C9 asks of one step.
C9_OtherCodeStep ==
    (/\ event'.op = "HandleServerMessage"
     /\ event'.code \notin {235, 334}) =>
        /\ event'.ret = "false"
        /\ event'.completed = <<>>
        /\ event'.sent = <<>>
        /\ event'.calls = <<>>
        /\ done' = done

C10_DoneStep ==
    /\ (~done /\ done') =>
          (event'.op = "HandleServerMessage" /\ event'.code = 235)
    /\ (done /\ ~done') => event'.op = "Reset"

----------------------------------------------------------------------------
(* Properties of Reset, SetCredentials, Register and Configure. *)

\* The number of calls of method that the call recorded in e made on m.
CallsOn(e, m, method) ==
    Cardinality({i \in DOMAIN e.calls :
                    e.calls[i].mech = m /\ e.calls[i].method = method})

\* The number of registrations of registry that hold mechanism m.
RegistrationsOf(registry, m) ==
    Cardinality({name \in DOMAIN registry : registry[name].impl = m})

\* What C11 asks of one step.  A completed hand-off with done clear is an
\* exchange that ended with 235 and was followed by Reset.
C11_ResetStep ==
    /\ event'.op = "Reset" =>
          /\ ~done'
          /\ \A i \in DOMAIN event'.calls : event'.calls[i].method = "Reset"
          /\ \A m \in Mechanisms :
                CallsOn(event', m, "Reset") = RegistrationsOf(mechs, m)
    /\ (/\ handoff.completed
        /\ ~done
        /\ event'.op = "IsExtraProtocolStageNeededHere"
        /\ event'.stage = ReadyToSend
        /\ Candidates # {}) => event'.ret = "true"

\* C11: Reset calls Reset on the mechanism of every registration, selected or
\* not, supported or not, and clears done; once Reset has followed an exchange
\* completed by 235, IsExtraProtocolStageNeededHere at ReadyToSend returns
\* true again whenever a registered name is in the supported list.
C11_Reset == [][C11_ResetStep]_vars

\* The stage is claimed again after a completed exchange and a Reset, while a
\* registration outside the supported list exists.
C11_Witness ==
    /\ AskedAtReadyToSend
    /\ event.ret = "true"
    /\ handoff.completed
    /\ ~done
    /\ \E name \in DOMAIN mechs : name \notin Candidates

\* What C12 asks of one step.
C12_SetCredentialsStep ==
    /\ event'.op = "SetCredentials" =>
          /\ \A i \in DOMAIN event'.calls :
                /\ event'.calls[i].method = "SetCredentials"
                /\ event'.calls[i].args = event'.args
          /\ \A m \in Mechanisms :
                CallsOn(event', m, "SetCredentials") = RegistrationsOf(mechs, m)
          /\ UNCHANGED <<mechs, supportedMechs, selectedMech, selectedMechName,
                         unsubscribeDelegate, subscriptions, done>>
    /\ event'.op # "SetCredentials" =>
          \A i \in DOMAIN event'.calls :
              event'.calls[i].method # "SetCredentials"

\* C12: SetCredentials hands the credentials, the authentication identity and
\* the authorization identity it was given to the mechanism of every
\* registration existing at the call, supported or not, selected or not, and
\* changes neither done nor the selection; no other method hands credentials
\* to a mechanism, so a mechanism registered later receives none.
C12_SetCredentials == [][C12_SetCredentialsStep]_vars

\* Both mechanisms receive the credentials while nothing is supported and
\* nothing is selected.
C12_Witness ==
    /\ event.op = "SetCredentials"
    /\ \E i, j \in DOMAIN event.calls :
          event.calls[i].mech = "mech1" /\ event.calls[j].mech = "mech2"
    /\ supportedMechs = <<>>
    /\ selectedMech = NoMech

\* What C15 asks of one step.
C15_ResetFrameStep ==
    event'.op = "Reset" =>
        UNCHANGED <<mechs, supportedMechs, selectedMech, selectedMechName,
                    unsubscribeDelegate, subscriptions, onSendMessage,
                    onStageComplete>>

\* C15: Reset leaves the registrations, the supported list and the stored
\* callbacks as they were (and the selection and its subscription too): of
\* the state of the extension itself it changes done only.
C15_ResetFrame == [][C15_ResetFrameStep]_vars

\* Reset in the middle of an exchange, with registrations, a supported list,
\* a selection and callbacks to keep.
C15_Witness ==
    /\ event.op = "Reset"
    /\ DOMAIN mechs # {}
    /\ supportedMechs # <<>>
    /\ selectedMech # NoMech
    /\ onSendMessage # NoCallback
    /\ onStageComplete # NoCallback

\* What C16 asks of one step.
C16_RegisterStep ==
    IF event'.op = "Register"
    THEN LET mechName == event'.args[1]
             rank == event'.args[2]
             mechImpl == event'.args[3]
         IN  /\ DOMAIN mechs' = DOMAIN mechs \cup {mechName}
             /\ mechs'[mechName] = [impl |-> mechImpl, rank |-> rank]
             /\ \A other \in DOMAIN mechs \ {mechName} :
                   mechs'[other] = mechs[other]
    ELSE mechs' = mechs

\* C16: Register(name, rank, impl) adds the entry of name, or replaces both
\* the rank and the implementation of the entry name has, and leaves every
\* other entry as it was; no step removes a registered name, and a name has
\* one entry; the rank is taken as given, be it negative, zero or the rank of
\* another entry.
C16_Register == [][C16_RegisterStep]_vars

\* FOO, registered and selected as mech1 before, has just been registered
\* as mech2 at rank 0, the rank BAR has too.
C16_Witness ==
    /\ event.op = "Register"
    /\ event.args = <<FOO, 0, "mech2">>
    /\ DOMAIN mechs = {FOO, BAR}
    /\ mechs[FOO] = [impl |-> "mech2", rank |-> 0]
    /\ mechs[BAR].rank = 0
    /\ selectedMech = "mech1"

\* What C17 asks of one step: the new list is a list of names, and the
\* string given to Configure is these names joined by single spaces.
C17_ConfigureStep ==
    event'.op = "Configure" =>
        /\ supportedMechs' \in NameLists
        /\ JoinedNames[supportedMechs'] = event'.args[1]
        /\ event'.calls = <<>>
        /\ UNCHANGED <<mechs, selectedMech, selectedMechName,
                       unsubscribeDelegate, subscriptions, done,
                       onSendMessage, onStageComplete>>

\* C17: Configure makes the supported list the tokens of the string given,
\* keeping nothing of the list it replaces, and selects nothing: the selected
\* mechanism, its name, the diagnostics subscription, done, the registrations
\* and the stored callbacks stay as they were.
C17_Configure == [][C17_ConfigureStep]_vars

\* FOO, selected from an earlier list, is not in the list just configured and
\* is selected still.
C17_Witness ==
    /\ event.op = "Configure"
    /\ supportedMechs = <<BAR>>
    /\ FOO \in DOMAIN mechs
    /\ selectedMechName = FOO
    /\ selectedMech = mechs[FOO].impl
    /\ unsubscribeDelegate = [mech |-> selectedMech, used |-> FALSE]

----------------------------------------------------------------------------
(* Properties of repeated selection and of the diagnostics subscription. *)

\* What IsExtraProtocolStageNeededHere at ReadyToSend gives if called in this
\* state: the value returned and the selection left.
SelectionIfAsked ==
    IF NotNeededHere(done, ReadyToSend)
    THEN [ret |-> "false", mech |-> selectedMech, name |-> selectedMechName]
    ELSE LET best == BestSupportedMechanism(mechs, supportedMechs,
                                            selectedMechName)
         IN  [ret |-> IF StageNeeded(best.mech) THEN "true" ELSE "false",
              mech |-> best.mech, name |-> best.name]

\* What C18 asks of one step: a call at ReadyToSend gives SelectionIfAsked;
\* having been called, IsExtraProtocolStageNeededHere would give the same
\* again, and so it would after SetCredentials and GoAhead, the calls other
\* than Register, Configure, Reset and HandleServerMessage, which leave the
\* variables that SelectionIfAsked is a function of as they were; and the
\* only methods of a mechanism it invokes are those of the subscription.
C18_IdempotentStep ==
    /\ (event'.op = "IsExtraProtocolStageNeededHere"
        /\ event'.stage = ReadyToSend) =>
          LET given == [ret |-> event'.ret, mech |-> selectedMech',
                        name |-> selectedMechName']
          IN  /\ given = SelectionIfAsked
              /\ given = SelectionIfAsked'
    /\ (\/ event'.op \in {"SetCredentials", "GoAhead"}
        \/ (event'.op = "IsExtraProtocolStageNeededHere"
            /\ event'.stage # ReadyToSend)) =>
          UNCHANGED <<mechs, supportedMechs, done, selectedMech,
                      selectedMechName>>
    /\ event'.op = "IsExtraProtocolStageNeededHere" =>
          \A i \in DOMAIN event'.calls :
              event'.calls[i].method \notin
                  {"Reset", "SetCredentials", "GetInitialResponse", "Proceed"}

\* C18: two calls of IsExtraProtocolStageNeededHere at ReadyToSend with no
\* Register, Configure, Reset or HandleServerMessage between them return the
\* same value and leave the same mechanism selected, and no call of
\* IsExtraProtocolStageNeededHere invokes Reset, SetCredentials,
\* GetInitialResponse or Proceed on a mechanism.
C18_Idempotent == [][C18_IdempotentStep]_vars

\* A call that selects the mechanism an earlier call had selected: it cancels
\* the subscription on that mechanism, subscribes to it again and returns
\* true.
C18_Witness ==
    /\ AskedAtReadyToSend
    /\ event.ret = "true"
    /\ event.calls = <<Call(selectedMech, "Unsubscribe", <<>>),
                       Call(selectedMech, "SubscribeToDiagnostics", <<>>)>>

\* C19: the subscription on the mechanism selected before is cancelled
\* before the subscription on the newly selected one is made, so in every
\* state at most one forwarding subscription is live, a live one is on the
\* selected mechanism, and none is live while no mechanism is selected.
C19_OneSubscription ==
    /\ \A m \in Mechanisms :
          /\ subscriptions[m] \in {0, 1}
          /\ subscriptions[m] = 1 => m = selectedMech
    /\ \A i, j \in DOMAIN event.calls :
          (/\ event.calls[i].method = "Unsubscribe"
           /\ event.calls[j].method = "SubscribeToDiagnostics") => i < j

\* A selection that moved from mech1 to mech2: the subscription on mech1 was
\* cancelled, then the one on mech2 made.
C19_Witness ==
    /\ AskedAtReadyToSend
    /\ event.calls = <<Call("mech1", "Unsubscribe", <<>>),
                       Call("mech2", "SubscribeToDiagnostics", <<>>)>>
    /\ subscriptions["mech1"] = 0
    /\ subscriptions["mech2"] = 1
    /\ selectedMech = "mech2"

----------------------------------------------------------------------------
(* Properties of an exchange: hand-off, server messages, completion. *)

\* What C13 asks of one step: once the completion callback of the latest
\* hand-off (one made with a mechanism selected) has been invoked, a
\* HandleServerMessage call does not invoke it.
C13_OneShotStep ==
    (/\ handoff.mech # NoMech
     /\ handoff.completed
     /\ event'.op = "HandleServerMessage") => event'.completed = <<>>

\* C13: between one GoAhead and the next, the HandleServerMessage calls invoke
\* the completion callback given to that GoAhead at most once.
C13_OneShot == [][C13_OneShotStep]_vars

\* What C14 asks of one step: the call just made was Reset, after a hand-off
\* whose exchange was not completed, and the next call is HandleServerMessage.
C14_AfterResetStep ==
    (/\ event.op = "Reset"
     /\ handoff.mech # NoMech
     /\ ~handoff.completed
     /\ event'.op = "HandleServerMessage") =>
        /\ event'.ret = "false"
        /\ ~done'
        /\ event'.sent = <<>>
        /\ event'.completed = <<>>

\* C14: once an exchange was abandoned and Reset called, a server message of
\* that exchange given to HandleServerMessage, whatever its code, is handled
\* as an unrecognized code: the call returns false, leaves done clear and
\* invokes neither the send callback nor the completion callback.
C14_AfterReset == [][C14_AfterResetStep]_vars

\* What C20 asks of one step: an AUTH line was sent and the call is
\* HandleServerMessage with code 334.
C20_ProceedStep ==
    (/\ handoff.mech # NoMech
     /\ event'.op = "HandleServerMessage"
     /\ event'.code = 334) =>
        /\ selectedMech # NoMech
        /\ \E i \in DOMAIN event'.calls :
              event'.calls[i].method = "Proceed"
        /\ \A i \in DOMAIN event'.calls :
              event'.calls[i].method = "Proceed" =>
                  event'.calls[i].mech = handoff.mech

\* C20: the mechanism whose Proceed is called for a 334 message is the one
\* named in the latest AUTH line GoAhead sent, whatever calls of Register,
\* Configure, Reset or IsExtraProtocolStageNeededHere came in between, and a
\* mechanism is selected when the message is handled.
C20_ProceedOnAuthMech == [][C20_ProceedStep]_vars

----------------------------------------------------------------------------
(* Properties of the unsubscribe handle and of the completion callback. *)

\* What C21 asks of one step: a call that invokes the stored unsubscribe
\* handle finds a handle that was not invoked before.
C21_HandleOnceStep ==
    (/\ event'.op = "IsExtraProtocolStageNeededHere"
     /\ \E i \in DOMAIN event'.calls :
           event'.calls[i].method = "Unsubscribe") =>
        ~unsubscribeDelegate.used

\* C21: an unsubscribe handle returned by a mechanism's
\* SubscribeToDiagnostics is invoked at most once; after a selection that
\* found no mechanism, a later selection does not invoke the handle of the
\* earlier subscription again.
C21_HandleOnce == [][C21_HandleOnceStep]_vars

\* C22: the completion callback is never invoked with success = false: every
\* invocation is made by HandleServerMessage with code 235, carries
\* success = true, and leaves done true.
C22_OnlySuccess ==
    event.completed # <<>> =>
        /\ event.op = "HandleServerMessage"
        /\ event.code = 235
        /\ \A i \in DOMAIN event.completed : event.completed[i].success = TRUE
        /\ done

\* The callback stored by GoAhead invoked with true by a 235 message.
C22_Witness ==
    /\ event.completed =
          <<[fn |-> CompleteCallback("host1"), success |-> TRUE]>>
    /\ handoff.completed
    /\ handoff.mech # NoMech

====
